---- MODULE Spec2Model ----
(***************************************************************************)
(* A model of tmxlib/fileio.py: the codec between a markup tree            *)
(* (lxml elements) and the tile-map document model.                        *)
(*                                                                         *)
(* Representation.                                                         *)
(*  - A Python str is a TLA+ string; str(int)/int(str) are modelled by     *)
(*    the decimal numeral of the number (PyStr / PyInt), so a number and   *)
(*    its markup text are different values.                                *)
(*  - An lxml element is a record [tag, attrib, children, text]; attrib    *)
(*    is a function from attribute names to strings.  lxml's attrib is a   *)
(*    live view of the element: attrib.pop(k) removes k from the element.  *)
(*    Every reader therefore returns, next to its outcome, the element as  *)
(*    the call leaves it.                                                  *)
(*  - The outcome of a call is [ok, val, err]: a returned value, or the    *)
(*    name of the exception that propagates.                               *)
(*  - A byte string is a sequence of 0..255.  A tile id is an unsigned     *)
(*    32-bit number, kept as the pair <<low 16 bits, high 16 bits>>        *)
(*    because the model checker's integers are 32-bit signed.              *)
(***************************************************************************)
EXTENDS Integers, Sequences, FiniteSets, TLC

VARIABLES
    longBytes,  \* itemsize of array typecode 'l' on this build: 4 or 8
    pc,         \* the last call made
    model,      \* the model-side object of the call (colour, layer, map)
    node,       \* the markup-side object of the call (string, element)
    out,        \* the outcome of the last call
    steps,      \* the transforms the last write call applied to the tile data, in
                \* order; once a written tree has been edited, the edit
    before      \* [input, out]: the element handed to the last read call as it was
                \* before the call, and the outcome of the call before it

vars == <<longBytes, pc, model, node, out, steps, before>>

None == "None"          \* Python's None
Unset == "<unset>"      \* an attribute the object does not have (getattr default applies)

Ok(v) == [ok |-> TRUE, val |-> v, err |-> ""]
Raise(e) == [ok |-> FALSE, val |-> None, err |-> e]

NoOut == [ok |-> FALSE, val |-> None, err |-> "<no call>"]
NoRead == [input |-> None, out |-> NoOut]

\* array.array('l') holds C longs: 4 bytes on ILP32 and on Windows, 8 on LP64
LongSizes == {4, 8}

(***************************************************************************)
(* Strings                                                                 *)
(***************************************************************************)
Char(s, i) == SubSeq(s, i, i)

RECURSIVE Repeat(_, _)
Repeat(s, n) == IF n <= 0 THEN "" ELSE s \o Repeat(s, n - 1)

\* str.ljust(width, fill): pads on the RIGHT
ljust(s, width, fill) == s \o Repeat(fill, width - Len(s))

startswith(s, p) == Len(s) >= Len(p) /\ SubSeq(s, 1, Len(p)) = p

LowerHex == "0123456789abcdef"
UpperHex == "0123456789ABCDEF"

\* hex(p)[2:] for an int p >= 0: lowercase digits, no padding
RECURSIVE HexDigits(_)
HexDigits(p) ==
    IF p < 16 THEN Char(LowerHex, p + 1)
    ELSE HexDigits(p \div 16) \o Char(LowerHex, (p % 16) + 1)

IsHexChar(c) == \E i \in 1..16 : Char(LowerHex, i) = c \/ Char(UpperHex, i) = c
HexVal(c) == (CHOOSE i \in 1..16 : Char(LowerHex, i) = c \/ Char(UpperHex, i) = c) - 1

(***************************************************************************)
(* Color codec                                                             *)
(***************************************************************************)
\* ord(binascii.unhexlify(p)) for a two-character string p
unhexlify_ord(p) ==
    IF IsHexChar(Char(p, 1)) /\ IsHexChar(Char(p, 2))
    THEN Ok(16 * HexVal(Char(p, 1)) + HexVal(Char(p, 2)))
    ELSE Raise("TypeError")

\* the last line of from_rgb, on the three two-digit parts
from_rgb_parts(b1, b2, b3) ==
    IF ~b1.ok \/ ~b2.ok \/ ~b3.ok THEN Raise("TypeError")
    ELSE Ok(<< b1.val, b2.val, b3.val >>)

\* from_rgb after the leading '#' is dropped
from_rgb_digits(s) ==
    IF Len(s) = 3 THEN
        from_rgb_parts(unhexlify_ord(Char(s, 1) \o Char(s, 1)),
                       unhexlify_ord(Char(s, 2) \o Char(s, 2)),
                       unhexlify_ord(Char(s, 3) \o Char(s, 3)))
    ELSE IF Len(s) = 6 THEN
        from_rgb_parts(unhexlify_ord(SubSeq(s, 1, 2)), unhexlify_ord(SubSeq(s, 3, 4)),
                       unhexlify_ord(SubSeq(s, 5, 6)))
    ELSE Raise("UnboundLocalError")

from_rgb(string) ==
    from_rgb_digits(IF startswith(string, "#") THEN SubSeq(string, 2, Len(string)) ELSE string)

to_rgb(rgb) ==
    ljust(HexDigits(rgb[1]), 2, "0") \o ljust(HexDigits(rgb[2]), 2, "0")
        \o ljust(HexDigits(rgb[3]), 2, "0")

\* the byte values and colour strings the colour runs draw from
ColorBytes == {0, 5, 15, 16, 171, 255}
ColorStrings == {"#ff0000", "f00", "FF0000", "ff00", "gg0000", "0a0b0c"}

InitColor ==
    /\ longBytes \in LongSizes
    /\ pc = "color"
    /\ model \in ColorBytes \X ColorBytes \X ColorBytes
    /\ node = None
    /\ out = NoOut
    /\ steps = <<>>
    /\ before = NoRead

\* write_image's call: element.attrib['trans'] = to_rgb(image.trans)
ToRgb ==
    /\ pc = "color"
    /\ node' = to_rgb(model)
    /\ pc' = "to_rgb"
    /\ out' = Ok(node')
    /\ UNCHANGED <<longBytes, model, steps, before>>

\* read_image's call on the text just written: trans = from_rgb(trans)
FromRgb ==
    /\ pc = "to_rgb"
    /\ out' = from_rgb(node)
    /\ pc' = "from_rgb"
    /\ UNCHANGED <<longBytes, model, node, steps, before>>

\* read_image's call on a colour text taken from a file
ParseRgb ==
    /\ pc = "color"
    /\ \E s \in ColorStrings :
        /\ node' = s
        /\ out' = from_rgb(s)
    /\ pc' = "parsed"
    /\ UNCHANGED <<longBytes, model, steps, before>>

NextColor == ToRgb \/ FromRgb \/ ParseRgb

SpecColor == InitColor /\ [][NextColor]_vars

\* C6: for every byte triple, to_rgb gives 6 lowercase hex digits, each byte
\* written as two digits left-padded with '0', and from_rgb(to_rgb(c)) = c.
C6_ColorRoundTrip ==
    /\ pc = "to_rgb" =>
        /\ Len(node) = 6
        /\ \A i \in 1..3 :
            SubSeq(node, 2 * i - 1, 2 * i) =
                Char(LowerHex, (model[i] \div 16) + 1) \o Char(LowerHex, (model[i] % 16) + 1)
    /\ pc = "from_rgb" => out = Ok(model)

(***************************************************************************)
(* Byte strings: struct.pack, zlib, gzip, base64                           *)
(***************************************************************************)
RECURSIVE Sum(_)
Sum(bs) == IF bs = <<>> THEN 0 ELSE bs[1] + Sum(Tail(bs))

RECURSIVE Flatten(_)
Flatten(ss) == IF ss = <<>> THEN <<>> ELSE ss[1] \o Flatten(Tail(ss))

\* a 16-bit number as two bytes, low byte first / high byte first
LE16(n) == << n % 256, n \div 256 >>
BE16(n) == << n \div 256, n % 256 >>

\* struct.pack('<%sI' % len(data), *data): each id as 4 bytes, little-endian
pack_uint32_le(data) == Flatten([i \in 1..Len(data) |-> LE16(data[i][1]) \o LE16(data[i][2])])

\* the deflate body of a zlib or gzip stream.  The compressor's choice of
\* block type is not modelled: the body is the stored (uncompressed) block
\* that inflates to the same bytes.
deflate(bs) == << 1 >> \o LE16(Len(bs)) \o LE16(65535 - Len(bs)) \o bs

inflate(body) ==
    IF Len(body) < 5 \/ body[1] # 1 THEN Raise("error")
    ELSE LET n == body[2] + 256 * body[3] IN
         IF body[4] + 256 * body[5] # 65535 - n \/ Len(body) # 5 + n THEN Raise("error")
         ELSE Ok(SubSeq(body, 6, Len(body)))

\* Adler-32 of a byte string, as 4 bytes high byte first
RECURSIVE AdlerB(_, _)
AdlerB(bs, a) ==
    IF bs = <<>> THEN 0
    ELSE LET a2 == (a + bs[1]) % 65521 IN (a2 + AdlerB(Tail(bs), a2)) % 65521
adler32(bs) == BE16(AdlerB(bs, 1)) \o BE16((1 + Sum(bs)) % 65521)

\* the check value of the gzip trailer (crc32 in the library), 4 bytes low byte
\* first.  Only its being a function of the data is used: it is modelled by a
\* position-weighted sum.
RECURSIVE WSum(_, _)
WSum(bs, i) == IF bs = <<>> THEN 0 ELSE (i * (bs[1] + 1) + WSum(Tail(bs), i + 1)) % 65536
crc32(bs) == LE16(WSum(bs, 1)) \o << 0, 0 >>

ZlibHeader == << 120, 156 >>

zlib_compress(bs) == ZlibHeader \o deflate(bs) \o adler32(bs)

zlib_decompress(zs) ==
    IF Len(zs) < 6 \/ SubSeq(zs, 1, 2) # ZlibHeader THEN Raise("zlib.error")
    ELSE LET r == inflate(SubSeq(zs, 3, Len(zs) - 4)) IN
         IF ~r.ok THEN Raise("zlib.error")
         ELSE IF SubSeq(zs, Len(zs) - 3, Len(zs)) # adler32(r.val) THEN Raise("zlib.error")
         ELSE r

\* gzip.GzipFile(fileobj=io, mode='wb', mtime=mtime): magic, method, flags,
\* mtime (4 bytes), xfl, os; body; crc32; size
gzip_header(mtime) == << 31, 139, 8, 0 >> \o LE16(mtime) \o << 0, 0, 2, 255 >>

gzip_write(bs, mtime) ==
    gzip_header(mtime) \o deflate(bs) \o crc32(bs) \o LE16(Len(bs)) \o << 0, 0 >>

gzip_read(gs) ==
    IF Len(gs) < 18 \/ SubSeq(gs, 1, 3) # << 31, 139, 8 >> THEN Raise("IOError")
    ELSE LET r == inflate(SubSeq(gs, 11, Len(gs) - 8)) IN
         IF ~r.ok THEN Raise("IOError")
         ELSE IF SubSeq(gs, Len(gs) - 7, Len(gs)) #
                    crc32(r.val) \o LE16(Len(r.val)) \o << 0, 0 >> THEN Raise("IOError")
         ELSE r

Base64Alphabet == "ABCDEFGHIJKLMNOPQRSTUVWXYZabcdefghijklmnopqrstuvwxyz0123456789+/"

\* the alphabet as a table from 6-bit values to characters, and back
B64Table == [v \in 0..63 |-> Char(Base64Alphabet, v + 1)]
B64Index == [c \in {B64Table[v] : v \in 0..63} |-> CHOOSE v \in 0..63 : B64Table[v] = c]

B64Char(v) == B64Table[v]
IsB64Char(c) == c \in DOMAIN B64Index
B64Val(c) == B64Index[c]

\* base64.b64encode: 3 bytes -> 4 characters, '=' padding at the end
RECURSIVE b64encode(_)
b64encode(bs) ==
    IF bs = <<>> THEN ""
    ELSE IF Len(bs) = 1 THEN
        B64Char(bs[1] \div 4) \o B64Char((bs[1] % 4) * 16) \o "=="
    ELSE IF Len(bs) = 2 THEN
        B64Char(bs[1] \div 4) \o B64Char((bs[1] % 4) * 16 + bs[2] \div 16)
            \o B64Char((bs[2] % 16) * 4) \o "="
    ELSE
        B64Char(bs[1] \div 4) \o B64Char((bs[1] % 4) * 16 + bs[2] \div 16)
            \o B64Char((bs[2] % 16) * 4 + bs[3] \div 64) \o B64Char(bs[3] % 64)
            \o b64encode(SubSeq(bs, 4, Len(bs)))

\* the alphabet characters of a text, as 6-bit values; the decoder skips every
\* other character (white space, line breaks)
RECURSIVE B64Values(_)
B64Values(s) ==
    IF s = "" THEN <<>>
    ELSE IF IsB64Char(Char(s, 1)) THEN << B64Val(Char(s, 1)) >> \o B64Values(SubSeq(s, 2, Len(s)))
    ELSE B64Values(SubSeq(s, 2, Len(s)))

RECURSIVE CountPad(_)
CountPad(s) ==
    IF s = "" THEN 0
    ELSE (IF Char(s, 1) = "=" THEN 1 ELSE 0) + CountPad(SubSeq(s, 2, Len(s)))

RECURSIVE B64Bytes(_)
B64Bytes(vs) ==
    IF Len(vs) < 2 THEN <<>>
    ELSE IF Len(vs) = 2 THEN << vs[1] * 4 + vs[2] \div 16 >>
    ELSE IF Len(vs) = 3 THEN << vs[1] * 4 + vs[2] \div 16, (vs[2] % 16) * 16 + vs[3] \div 4 >>
    ELSE << vs[1] * 4 + vs[2] \div 16, (vs[2] % 16) * 16 + vs[3] \div 4,
            (vs[3] % 4) * 64 + vs[4] >> \o B64Bytes(SubSeq(vs, 5, Len(vs)))

\* base64.b64decode: TypeError for None and for incorrect padding
b64decode(s) ==
    IF s = None THEN Raise("TypeError")
    ELSE LET vs == B64Values(s)
             r == Len(vs) % 4
         IN  IF r = 1 \/ (r # 0 /\ CountPad(s) < 4 - r) THEN Raise("TypeError")
             ELSE Ok(B64Bytes(vs))

(***************************************************************************)
(* Numbers in markup: str() and int() / float()                            *)
(***************************************************************************)
Digits == "0123456789"
IsDigit(c) == \E i \in 1..10 : Char(Digits, i) = c
DigitVal(c) == (CHOOSE i \in 1..10 : Char(Digits, i) = c) - 1
AllDigits(s) == Len(s) > 0 /\ \A i \in 1..Len(s) : IsDigit(Char(s, i))

RECURSIVE NatStr(_)
NatStr(n) == IF n < 10 THEN Char(Digits, n + 1) ELSE NatStr(n \div 10) \o Char(Digits, (n % 10) + 1)

\* str(n) for an int
PyStr(n) == IF n < 0 THEN "-" \o NatStr(-n) ELSE NatStr(n)

RECURSIVE NatVal(_)
NatVal(s) == IF s = "" THEN 0 ELSE 10 * NatVal(SubSeq(s, 1, Len(s) - 1)) + DigitVal(Char(s, Len(s)))

RECURSIVE Strip(_)
Strip(s) ==
    IF s # "" /\ Char(s, 1) = " " THEN Strip(SubSeq(s, 2, Len(s)))
    ELSE IF s # "" /\ Char(s, Len(s)) = " " THEN Strip(SubSeq(s, 1, Len(s) - 1))
    ELSE s

\* an unsigned numeral
PyNat(d) == IF AllDigits(d) THEN Ok(NatVal(d)) ELSE Raise("ValueError")

Negated(r) == IF r.ok THEN Ok(-r.val) ELSE r

PyIntStripped(t) ==
    IF startswith(t, "-") THEN Negated(PyNat(SubSeq(t, 2, Len(t))))
    ELSE IF startswith(t, "+") THEN PyNat(SubSeq(t, 2, Len(t)))
    ELSE PyNat(t)

\* int(s) for a str: white space around it, a sign and leading zeros are accepted
PyInt(s) == PyIntStripped(Strip(s))

\* An opacity is a float with one decimal, kept in tenths: 10 is 1.0.
\* str(x) for such a float
PyFloatStr(t) == NatStr(t \div 10) \o "." \o NatStr(t % 10)

PyFloatStripped(t) ==
    IF AllDigits(t) THEN Ok(10 * NatVal(t))
    ELSE IF Len(t) >= 3 /\ Char(t, Len(t) - 1) = "." /\ AllDigits(SubSeq(t, 1, Len(t) - 2))
            /\ IsDigit(Char(t, Len(t)))
    THEN Ok(10 * NatVal(SubSeq(t, 1, Len(t) - 2)) + DigitVal(Char(t, Len(t))))
    ELSE Raise("ValueError")

\* float(s): an integer numeral, or digits '.' digit
PyFloat(s) == PyFloatStripped(Strip(s))

(***************************************************************************)
(* Elements                                                                *)
(***************************************************************************)
EmptyDict == [k \in {} |-> ""]

DictSet(d, k, v) == [x \in (DOMAIN d) \cup {k} |-> IF x = k THEN v ELSE d[x]]
DictDel(d, k) == [x \in (DOMAIN d) \ {k} |-> d[x]]
\* dict.update
DictUpdate(d, e) == [x \in (DOMAIN d) \cup (DOMAIN e) |-> IF x \in DOMAIN e THEN e[x] ELSE d[x]]
DictGet(d, k, default) == IF k \in DOMAIN d THEN d[k] ELSE default

\* etree.Element(tag, attrib=attrib)
Element(tag, attrib) == [tag |-> tag, attrib |-> attrib, children |-> <<>>, text |-> None]

\* element.append(child)
AppendChild(e, c) == [e EXCEPT !.children = Append(@, c)]

\* The attributes a reader takes from a node, in the order the code pops them:
\* [name, req, kind].  req: popped without a default (KeyError when absent).
\* kind: the conversion applied to the popped text ("str" for none).
Attr(name, req, kind) == [name |-> name, req |-> req, kind |-> kind]

Convert(kind, text) ==
    IF kind = "int" THEN PyInt(text)
    ELSE IF kind = "float" THEN PyFloat(text)
    ELSE Ok(text)

\* elem.attrib.pop(...) for each listed attribute in turn, with its conversion;
\* stops at the first exception.  [attrib: what is left on the node,
\* vals: name -> converted value of the attributes found, err: "" or the exception]
RECURSIVE PopAttrs(_, _, _)
RECURSIVE PopConverted(_, _, _, _)
PopAttrs(attrib, want, vals) ==
    IF want = <<>> THEN [attrib |-> attrib, vals |-> vals, err |-> ""]
    ELSE IF want[1].name \notin DOMAIN attrib THEN
        IF want[1].req THEN [attrib |-> attrib, vals |-> vals, err |-> "KeyError"]
        ELSE PopAttrs(attrib, Tail(want), vals)
    ELSE PopConverted(DictDel(attrib, want[1].name), want, vals,
                      Convert(want[1].kind, attrib[want[1].name]))

\* the attribute is popped (left: what remains); c: its conversion
PopConverted(left, want, vals, c) ==
    IF ~c.ok THEN [attrib |-> left, vals |-> vals, err |-> c.err]
    ELSE PopAttrs(left, Tail(want), DictSet(vals, want[1].name, c.val))

\* what a reader returns: its outcome and the element as it leaves it
Result(o, e) == [out |-> o, elem |-> e]

(***************************************************************************)
(* Property bag codec                                                      *)
(***************************************************************************)
\* the loop of read_properties over the property children from the i-th on
RECURSIVE read_property_loop(_, _, _)
RECURSIVE read_property(_, _, _, _)
read_property_loop(kids, i, properties) ==
    IF i > Len(kids) THEN [out |-> Ok(properties), kids |-> kids]
    ELSE IF kids[i].tag # "property" THEN [out |-> Raise("AssertionError"), kids |-> kids]
    ELSE read_property(kids, i, properties,
                       PopAttrs(kids[i].attrib, << Attr("name", TRUE, "str"),
                                                   Attr("value", TRUE, "str") >>, EmptyDict))

\* the body of the loop once name and value are popped (p)
read_property(kids, i, properties, p) ==
    IF p.err # "" THEN [out |-> Raise(p.err), kids |-> [kids EXCEPT ![i].attrib = p.attrib]]
    ELSE IF DOMAIN p.attrib # {} THEN
        [out |-> Raise("AssertionError"), kids |-> [kids EXCEPT ![i].attrib = p.attrib]]
    ELSE read_property_loop([kids EXCEPT ![i].attrib = p.attrib], i + 1,
                            DictSet(properties, p.vals["name"], p.vals["value"]))

\* a loop's outcome put back on the element whose children it went through
Looped(elem, r) == Result(r.out, [elem EXCEPT !.children = r.kids])

read_properties(elem) ==
    IF elem.tag # "properties" THEN Result(Raise("AssertionError"), elem)
    ELSE IF DOMAIN elem.attrib # {} THEN Result(Raise("AssertionError"), elem)
    ELSE Looped(elem, read_property_loop(elem.children, 1, EmptyDict))

\* the order in which a dict of properties is iterated (props.items()): fixed
\* for a given dict; here the order of this list
PropertyKeys == << "a", "b" >>

RECURSIVE property_elements(_, _)
property_elements(props, i) ==
    IF i > Len(PropertyKeys) THEN <<>>
    ELSE (IF PropertyKeys[i] \in DOMAIN props
          THEN << Element("property", [name |-> PropertyKeys[i], value |-> props[PropertyKeys[i]]]) >>
          ELSE <<>>) \o property_elements(props, i + 1)

\* append_properties(parent, props): the parent with the properties child, if any
append_properties(parent, props) ==
    IF DOMAIN props = {} THEN parent
    ELSE AppendChild(parent, [Element("properties", EmptyDict) EXCEPT
                                  !.children = property_elements(props, 1)])

(***************************************************************************)
(* Tile-layer codec                                                        *)
(***************************************************************************)
\* A tile layer: [type, name, map, visible, opacity, properties, data,
\* compression, encoding, mtime].  map is the size of the owning map, the only
\* thing the codec reads through layer.map.  compression, encoding and mtime
\* are attributes a layer need not have (Unset; no mtime is <<>>).

\* Python truth of a str-or-None value
Truthy(x) == x # None /\ x # ""

\* getattr(obj, name, default)
getattr(value, default) == IF value = Unset THEN default ELSE value

\* time.time() as GzipFile stamps it when mtime is None
CurrentTime == 1000

\* array.array('l', ints): OverflowError for an int that is no C long
FitsLong(id) == longBytes = 8 \/ id[2] < 32768

\* the list comprehension of tile_layer_from_element: one id per complete
\* group of 4 bytes (zip stops at the shortest slice)
unpack_ids(bytes) ==
    [k \in 1..(Len(bytes) \div 4) |->
        << bytes[4 * k - 3] + 256 * bytes[4 * k - 2], bytes[4 * k - 1] + 256 * bytes[4 * k] >>]

\* the end of the 'data' branch: the ids of the raw bytes
read_data_ids(subelem, compression, raw) ==
    IF ~raw.ok THEN Result(raw, subelem)
    ELSE IF \E k \in 1..(Len(raw.val) \div 4) : ~FitsLong(unpack_ids(raw.val)[k]) THEN
        Result(Raise("OverflowError"), subelem)
    ELSE Result(Ok([data |-> unpack_ids(raw.val), encoding |-> "base64",
                    compression |-> IF Truthy(compression) THEN compression ELSE None]), subelem)

\* the 'data' branch once the compression attribute is popped (c)
read_data_decompress(subelem, decoded, c) ==
    read_data_ids([subelem EXCEPT !.attrib = c.attrib], DictGet(c.vals, "compression", None),
        IF DictGet(c.vals, "compression", None) = "gzip" THEN gzip_read(decoded.val)
        ELSE IF DictGet(c.vals, "compression", None) = "zlib" THEN zlib_decompress(decoded.val)
        ELSE IF Truthy(DictGet(c.vals, "compression", None)) THEN Raise("AssertionError")
        ELSE decoded)

\* the 'data' branch once the text is decoded
read_data_decoded(subelem, decoded) ==
    IF ~decoded.ok THEN Result(decoded, subelem)
    ELSE read_data_decompress(subelem, decoded,
            PopAttrs(subelem.attrib, << Attr("compression", FALSE, "str") >>, EmptyDict))

\* the 'data' branch once the encoding attribute is popped (e)
read_data_encoding(subelem, e) ==
    IF e.err # "" THEN Result(Raise(e.err), [subelem EXCEPT !.attrib = e.attrib])
    ELSE IF e.vals["encoding"] # "base64" THEN
        Result(Raise("AssertionError"), [subelem EXCEPT !.attrib = e.attrib])
    ELSE read_data_decoded([subelem EXCEPT !.attrib = e.attrib], b64decode(subelem.text))

\* the body of the 'data' branch of tile_layer_from_element
read_data(subelem) ==
    read_data_encoding(subelem,
        PopAttrs(subelem.attrib, << Attr("encoding", TRUE, "str") >>, EmptyDict))

\* the loop of tile_layer_from_element over the children from the i-th on
RECURSIVE tile_layer_loop(_, _, _, _)
RECURSIVE tile_layer_properties(_, _, _, _, _)
RECURSIVE tile_layer_data(_, _, _, _)
tile_layer_loop(kids, i, layer, data_set) ==
    IF i > Len(kids) THEN
        [out |-> IF data_set THEN Ok(layer) ELSE Raise("AssertionError"), kids |-> kids]
    ELSE IF kids[i].tag = "properties" THEN
        tile_layer_properties(kids, i, layer, data_set, read_properties(kids[i]))
    ELSE IF kids[i].tag = "data" THEN
        IF data_set THEN [out |-> Raise("AssertionError"), kids |-> kids]
        ELSE tile_layer_data(kids, i, layer, read_data(kids[i]))
    ELSE [out |-> Raise("AssertionError"), kids |-> kids]

\* layer.properties.update(read_properties(subelem)), r being what
\* read_properties gave
tile_layer_properties(kids, i, layer, data_set, r) ==
    IF ~r.out.ok THEN [out |-> r.out, kids |-> [kids EXCEPT ![i] = r.elem]]
    ELSE tile_layer_loop([kids EXCEPT ![i] = r.elem], i + 1,
                         [layer EXCEPT !.properties = DictUpdate(@, r.out.val)], data_set)

\* the assignments of the 'data' branch, r being what read_data gave
tile_layer_data(kids, i, layer, r) ==
    IF ~r.out.ok THEN [out |-> r.out, kids |-> [kids EXCEPT ![i] = r.elem]]
    ELSE tile_layer_loop([kids EXCEPT ![i] = r.elem], i + 1,
                         [layer EXCEPT !.data = r.out.val.data,
                                       !.encoding = r.out.val.encoding,
                                       !.compression = r.out.val.compression], TRUE)

LayerAttrs ==
    << Attr("name", TRUE, "str"), Attr("opacity", FALSE, "float"), Attr("visible", FALSE, "int"),
       Attr("width", TRUE, "int"), Attr("height", TRUE, "int") >>

\* ArrayMapLayer(map, name, opacity, visible): no data, compression or
\* encoding yet
NewTileLayer(vals, map) ==
    [type |-> "tiles", name |-> vals["name"], map |-> map.size,
     opacity |-> DictGet(vals, "opacity", 10),
     visible |-> DictGet(vals, "visible", 1) # 0,
     properties |-> EmptyDict, data |-> <<>>,
     compression |-> Unset, encoding |-> Unset, mtime |-> <<>>]

\* the checks both layer readers make once the layer attributes are popped
\* (p): "" or the exception
LayerAttrsError(p, map) ==
    IF p.err # "" THEN p.err
    ELSE IF << p.vals["width"], p.vals["height"] >> # map.size THEN "AssertionError"
    ELSE IF DOMAIN p.attrib # {} THEN "AssertionError"
    ELSE ""

tile_layer_popped(elem, map, p) ==
    IF LayerAttrsError(p, map) # "" THEN
        Result(Raise(LayerAttrsError(p, map)), [elem EXCEPT !.attrib = p.attrib])
    ELSE Looped([elem EXCEPT !.attrib = p.attrib],
                tile_layer_loop(elem.children, 1, NewTileLayer(p.vals, map), FALSE))

tile_layer_from_element(elem, map) ==
    tile_layer_popped(elem, map, PopAttrs(elem.attrib, LayerAttrs, EmptyDict))

\* the attributes and properties every layer element starts with
layer_element(tag, layer) ==
    LET e0 == Element(tag, [name |-> layer.name, width |-> PyStr(layer.map[1]),
                            height |-> PyStr(layer.map[2])])
        e1 == IF ~layer.visible THEN [e0 EXCEPT !.attrib = DictSet(@, "visible", "0")] ELSE e0
        e2 == IF layer.opacity # 10
              THEN [e1 EXCEPT !.attrib = DictSet(@, "opacity", PyFloatStr(layer.opacity))] ELSE e1
    IN  append_properties(e2, layer.properties)

\* tile_layer_to_element had it both settings validated right after the
\* packing, before compression
tile_layer_to_element_validating_first(layer) ==
    LET element == layer_element("layer", layer)
        packed == pack_uint32_le(layer.data)
        compression == getattr(layer.compression, "zlib")
        encoding == getattr(layer.encoding, "base64")
        attrib0 == IF Truthy(compression) THEN [compression |-> compression] ELSE EmptyDict
        attrib1 == IF Truthy(encoding) THEN DictSet(attrib0, "encoding", encoding) ELSE attrib0
        mtime == IF layer.mtime = <<>> THEN CurrentTime ELSE layer.mtime[1]
        compressed == IF compression = "gzip" THEN gzip_write(packed, mtime)
                      ELSE IF compression = "zlib" THEN zlib_compress(packed)
                      ELSE packed
    IN
    IF compression \notin {"gzip", "zlib"} /\ Truthy(compression) THEN
        [out |-> Raise("ValueError: Bad compression"), steps |-> << "pack" >>]
    ELSE IF encoding # "base64" THEN
        [out |-> Raise("ValueError: Bad encoding"), steps |-> << "pack" >>]
    ELSE [out |-> Ok(AppendChild(element,
                     [Element("data", attrib1) EXCEPT !.text = b64encode(compressed)])),
          steps |-> IF compression \in {"gzip", "zlib"}
                    THEN << "pack", compression, "base64" >> ELSE << "pack", "base64" >>]

\* [out: the element or the exception, steps: the transforms applied to the data]
tile_layer_to_element(layer) ==
    LET element == layer_element("layer", layer)
        packed == pack_uint32_le(layer.data)
        compression == getattr(layer.compression, "zlib")
        encoding == getattr(layer.encoding, "base64")
        attrib0 == IF Truthy(compression) THEN [compression |-> compression] ELSE EmptyDict
        attrib1 == IF Truthy(encoding) THEN DictSet(attrib0, "encoding", encoding) ELSE attrib0
        mtime == IF layer.mtime = <<>> THEN CurrentTime ELSE layer.mtime[1]
        compressed == IF compression = "gzip" THEN gzip_write(packed, mtime)
                      ELSE IF compression = "zlib" THEN zlib_compress(packed)
                      ELSE packed
        steps1 == IF compression \in {"gzip", "zlib"} THEN << "pack", compression >>
                  ELSE << "pack" >>
    IN
    IF compression \notin {"gzip", "zlib"} /\ Truthy(compression) THEN
        [out |-> Raise("ValueError: Bad compression"), steps |-> steps1]
    ELSE IF encoding # "base64" THEN
        [out |-> Raise("ValueError: Bad encoding"), steps |-> steps1]
    ELSE [out |-> Ok(AppendChild(element,
                     [Element("data", attrib1) EXCEPT !.text = b64encode(compressed)])),
          steps |-> Append(steps1, "base64")]

(***************************************************************************)
(* Image codec                                                             *)
(***************************************************************************)
\* An image: [source, trans, size]; trans is <<>> (None) or << <<r, g, b>> >>.

\* cls(source=..., trans=trans, size=...) and the assertion after it, once
\* source, width and height are popped (p)
read_image_popped(elem, text, trans, p) ==
    IF p.err # "" THEN Result(Raise(p.err), [elem EXCEPT !.attrib = p.attrib])
    ELSE IF DOMAIN p.attrib # {} THEN
        Result(Raise("AssertionError"), [elem EXCEPT !.attrib = p.attrib])
    ELSE Result(Ok([source |-> p.vals["source"],
                    trans |-> IF Truthy(text) THEN << trans.val >> ELSE <<>>,
                    size |-> << DictGet(p.vals, "width", 0), DictGet(p.vals, "height", 0) >>]),
                [elem EXCEPT !.attrib = p.attrib])

\* read_image after 'if trans: trans = from_rgb(trans)'
read_image_trans(elem, text, trans) ==
    IF ~trans.ok THEN Result(trans, elem)
    ELSE read_image_popped(elem, text, trans,
            PopAttrs(elem.attrib, << Attr("source", TRUE, "str"), Attr("width", FALSE, "int"),
                                     Attr("height", FALSE, "int") >>, EmptyDict))

\* read_image once the trans attribute is popped (t)
read_image_text(elem, t) ==
    read_image_trans([elem EXCEPT !.attrib = t.attrib], DictGet(t.vals, "trans", None),
        IF Truthy(DictGet(t.vals, "trans", None)) THEN from_rgb(t.vals["trans"]) ELSE Ok(<<>>))

read_image(elem, base_path) ==
    read_image_text(elem, PopAttrs(elem.attrib, << Attr("trans", FALSE, "str") >>, EmptyDict))

write_image(image, base_path) ==
    LET e0 == Element("image", [source |-> image.source])
        e1 == IF image.size[2] # 0
              THEN [e0 EXCEPT !.attrib = DictSet(@, "height", PyStr(image.size[2]))] ELSE e0
        e2 == IF image.size[1] # 0
              THEN [e1 EXCEPT !.attrib = DictSet(@, "width", PyStr(image.size[1]))] ELSE e1
    IN  IF image.trans # <<>>
        THEN [e2 EXCEPT !.attrib = DictSet(@, "trans", to_rgb(image.trans[1]))] ELSE e2

(***************************************************************************)
(* Tileset codec                                                           *)
(***************************************************************************)
\* A tileset: [name, tile_size, margin, spacing, image, tile_properties,
\* source, read_first_gid].  image is <<>> (None) or << image >>; source is
\* None for an embedded tileset; read_first_gid (_read_first_gid) is <<>>
\* until a read sets it.

\* len(tileset): the tiles its image holds
TileCount(tileset) ==
    IF tileset.image = <<>> THEN 0
    ELSE (tileset.image[1].size[1] \div tileset.tile_size[1])
            * (tileset.image[1].size[2] \div tileset.tile_size[2])

\* tileset.first_gid(map) of the i-th tileset of a map: 1 + the tile counts
\* of the tilesets before it
RECURSIVE first_gid(_, _)
first_gid(tilesets, i) ==
    IF i <= 1 THEN 1 ELSE first_gid(tilesets, i - 1) + TileCount(tilesets[i - 1])

\* the loop over the children of a tile element from the i-th on
RECURSIVE read_tile_loop(_, _, _, _)
RECURSIVE read_tile_properties(_, _, _, _, _)
read_tile_loop(kids, i, id, tile_properties) ==
    IF i > Len(kids) THEN [out |-> Ok(tile_properties), kids |-> kids]
    ELSE IF kids[i].tag = "properties" THEN
        read_tile_properties(kids, i, id, tile_properties, read_properties(kids[i]))
    ELSE [out |-> Raise("AssertionError"), kids |-> kids]

\* props = tileset.tile_properties[id]; props.update(...), r being what
\* read_properties gave
read_tile_properties(kids, i, id, tile_properties, r) ==
    IF ~r.out.ok THEN [out |-> r.out, kids |-> [kids EXCEPT ![i] = r.elem]]
    ELSE read_tile_loop([kids EXCEPT ![i] = r.elem], i + 1, id,
            DictSet(tile_properties, id,
                    DictUpdate(DictGet(tile_properties, id, EmptyDict), r.out.val)))

\* the loop of read_tileset over the children from the i-th on
RECURSIVE read_tileset_loop(_, _, _, _)
RECURSIVE read_tileset_image(_, _, _, _, _)
RECURSIVE read_tileset_tile(_, _, _, _, _)
RECURSIVE read_tileset_tile_children(_, _, _, _, _, _)
read_tileset_loop(kids, i, tileset, base_path) ==
    IF i > Len(kids) THEN [out |-> Ok(tileset), kids |-> kids]
    ELSE IF kids[i].tag = "image" THEN
        IF tileset.image # <<>> THEN [out |-> Raise("AssertionError"), kids |-> kids]
        ELSE read_tileset_image(kids, i, tileset, base_path, read_image(kids[i], base_path))
    ELSE IF kids[i].tag = "tile" THEN
        read_tileset_tile(kids, i, tileset, base_path,
                          PopAttrs(kids[i].attrib, << Attr("id", TRUE, "int") >>, EmptyDict))
    ELSE [out |-> Raise("AssertionError"), kids |-> kids]

\* tileset.image = ..., r being what read_image gave
read_tileset_image(kids, i, tileset, base_path, r) ==
    IF ~r.out.ok THEN [out |-> r.out, kids |-> [kids EXCEPT ![i] = r.elem]]
    ELSE read_tileset_loop([kids EXCEPT ![i] = r.elem], i + 1,
                           [tileset EXCEPT !.image = << r.out.val >>], base_path)

\* the 'tile' branch once the id attribute is popped (p)
read_tileset_tile(kids, i, tileset, base_path, p) ==
    IF p.err # "" THEN [out |-> Raise(p.err), kids |-> [kids EXCEPT ![i].attrib = p.attrib]]
    ELSE read_tileset_tile_children([kids EXCEPT ![i].attrib = p.attrib], i, tileset, base_path,
            p.vals["id"],
            read_tile_loop(kids[i].children, 1, p.vals["id"], tileset.tile_properties))

\* the 'tile' branch after its inner loop (r)
read_tileset_tile_children(kids, i, tileset, base_path, id, r) ==
    IF ~r.out.ok THEN [out |-> r.out, kids |-> [kids EXCEPT ![i].children = r.kids]]
    ELSE read_tileset_loop([kids EXCEPT ![i].children = r.kids], i + 1,
                           [tileset EXCEPT !.tile_properties = r.out.val], base_path)

\* read_tileset for an element without a source attribute, once its
\* attributes are popped (p)
read_embedded_tileset_popped(elem, base_path, p) ==
    IF p.err # "" THEN Result(Raise(p.err), [elem EXCEPT !.attrib = p.attrib])
    ELSE IF DOMAIN p.attrib # {} THEN
        Result(Raise("AssertionError"), [elem EXCEPT !.attrib = p.attrib])
    ELSE Looped([elem EXCEPT !.attrib = p.attrib],
                read_tileset_loop(elem.children, 1,
                    [name |-> p.vals["name"],
                     tile_size |-> << p.vals["tilewidth"], p.vals["tileheight"] >>,
                     margin |-> DictGet(p.vals, "margin", 0),
                     spacing |-> DictGet(p.vals, "spacing", 0),
                     image |-> <<>>, tile_properties |-> EmptyDict, source |-> None,
                     read_first_gid |-> << DictGet(p.vals, "firstgid", 0) >>],
                    base_path))

\* read_tileset for an element without a source attribute
read_embedded_tileset(elem, base_path) ==
    read_embedded_tileset_popped(elem, base_path,
        PopAttrs(elem.attrib,
                 << Attr("name", TRUE, "str"), Attr("tilewidth", TRUE, "int"),
                    Attr("tileheight", TRUE, "int"), Attr("margin", FALSE, "int"),
                    Attr("spacing", FALSE, "int"), Attr("firstgid", FALSE, "int") >>, EmptyDict))

\* The files an external tileset reference can name: path -> the root element
\* of the file.  A tileset file holds a tileset element without firstgid.
TilesetFiles ==
    [p \in {"/maps/ext.tsx"} |->
        AppendChild(Element("tileset", [name |-> "ext", tilewidth |-> "8", tileheight |-> "8"]),
                    Element("image", [source |-> "ext.png", width |-> "8", height |-> "8"]))]

os_path_isabs(path) == startswith(path, "/")
os_path_join(base, path) == IF os_path_isabs(path) THEN path ELSE base \o "/" \o path
\* os.path.dirname of a path in the directory /maps
os_path_dirname(path) == "/maps"

\* cls.open(filename): the file parsed anew and read as a tileset
open_tileset(filename) ==
    IF filename \notin DOMAIN TilesetFiles THEN Raise("IOError")
    ELSE read_embedded_tileset(TilesetFiles[filename], os_path_dirname(filename)).out

\* the end of the external branch: tileset is what cls.open gave
read_external_opened(elem, source, first_gid_read, tileset) ==
    IF ~tileset.ok THEN Result(tileset, elem)
    ELSE Result(Ok([tileset.val EXCEPT !.read_first_gid = << first_gid_read >>,
                                       !.source = source]), elem)

\* the external branch once the firstgid attribute is popped (g)
read_external_popped(elem, source, real_source, g) ==
    IF g.err # "" THEN Result(Raise(g.err), [elem EXCEPT !.attrib = g.attrib])
    ELSE IF DOMAIN g.attrib # {} THEN
        Result(Raise("AssertionError"), [elem EXCEPT !.attrib = g.attrib])
    ELSE read_external_opened([elem EXCEPT !.attrib = g.attrib], source, g.vals["firstgid"],
                              open_tileset(real_source))

\* read_tileset for an element with a source attribute (already popped)
read_external_tileset(elem, base_path, source) ==
    IF base_path = None /\ ~os_path_isabs(source) THEN Result(Raise("ValueError"), elem)
    ELSE read_external_popped(elem, source,
            IF Truthy(base_path) THEN os_path_join(base_path, source) ELSE source,
            PopAttrs(elem.attrib, << Attr("firstgid", TRUE, "int") >>, EmptyDict))

\* read_tileset once the source attribute is popped (s)
read_tileset_source(elem, base_path, s) ==
    IF Truthy(DictGet(s.vals, "source", None)) THEN
        read_external_tileset([elem EXCEPT !.attrib = s.attrib], base_path, s.vals["source"])
    ELSE read_embedded_tileset([elem EXCEPT !.attrib = s.attrib], base_path)

read_tileset(elem, base_path) ==
    read_tileset_source(elem, base_path,
        PopAttrs(elem.attrib, << Attr("source", FALSE, "str") >>, EmptyDict))

\* the largest tile id that has properties of its own
MaxTileId == 1

\* the tile elements of write_tileset, by ascending id: sorted(...items())
RECURSIVE tile_elements(_, _)
tile_elements(tile_properties, tile_no) ==
    IF tile_no > MaxTileId THEN <<>>
    ELSE (IF tile_no \in DOMAIN tile_properties /\ DOMAIN tile_properties[tile_no] # {}
          THEN << append_properties(Element("tile", [id |-> PyStr(tile_no)]),
                                    tile_properties[tile_no]) >>
          ELSE <<>>) \o tile_elements(tile_properties, tile_no + 1)

write_tileset(tileset, base_path, gid) ==
    IF tileset.source # None THEN
        Element("tileset", IF gid # 0 THEN [source |-> tileset.source, firstgid |-> PyStr(gid)]
                           ELSE [source |-> tileset.source])
    ELSE
        LET attrib == [name |-> tileset.name, tileheight |-> PyStr(tileset.tile_size[2]),
                       tilewidth |-> PyStr(tileset.tile_size[1])]
            e0 == Element("tileset", IF gid # 0 THEN DictSet(attrib, "firstgid", PyStr(gid))
                                     ELSE attrib)
            e1 == IF tileset.spacing # 0
                  THEN [e0 EXCEPT !.attrib = DictSet(@, "spacing", PyStr(tileset.spacing))] ELSE e0
            e2 == IF tileset.margin # 0
                  THEN [e1 EXCEPT !.attrib = DictSet(@, "margin", PyStr(tileset.margin))] ELSE e1
            e3 == IF tileset.image # <<>>
                  THEN AppendChild(e2, write_image(tileset.image[1], base_path)) ELSE e2
        IN  [e3 EXCEPT !.children = @ \o tile_elements(tileset.tile_properties, 0)]

(***************************************************************************)
(* Object-layer codec                                                      *)
(***************************************************************************)
\* An object layer: [type, name, map, visible, opacity, properties, objects].
\* A map object: [pos, value, name, type, size, tileset_tile]; value is the
\* gid (0: no tile); tileset_tile is <<>> (None) or << [size] >>, the tile
\* the gid refers to.

\* the tile a gid refers to among a map's tilesets: that of the tileset whose
\* range of global ids holds it
RECURSIVE tile_of_gid(_, _, _)
tile_of_gid(tilesets, gid, i) ==
    IF i > Len(tilesets) \/ gid = 0 THEN <<>>
    ELSE IF gid >= first_gid(tilesets, i) /\ gid < first_gid(tilesets, i) + TileCount(tilesets[i])
    THEN << [size |-> tilesets[i].tile_size] >>
    ELSE tile_of_gid(tilesets, gid, i + 1)

\* tmxlib.MapObject(**kwargs): an object without a size of its own has the
\* size of its tile, or (0, 0)
MapObject(kwargs, tilesets) ==
    LET value == DictGet(kwargs, "value", 0)
        tile == tile_of_gid(tilesets, value, 1)
    IN  [pos |-> kwargs["pos"], value |-> value,
         name |-> DictGet(kwargs, "name", None), type |-> DictGet(kwargs, "type", None),
         size |-> IF "size" \in DOMAIN kwargs THEN kwargs["size"]
                  ELSE IF tile # <<>> THEN tile[1].size ELSE << 0, 0 >>,
         tileset_tile |-> tile]

\* the kwargs of the 'object' branch: pos, and what the put calls and the
\* size lines add
object_kwargs(vals, width, height) ==
    [k \in {"pos"} \cup (DOMAIN vals \cap {"name", "type"})
           \cup (IF "gid" \in DOMAIN vals THEN {"value"} ELSE {})
           \cup (IF DOMAIN vals \cap {"width", "height"} # {} THEN {"size"} ELSE {}) |->
        IF k = "pos" THEN << vals["x"], vals["y"] >>
        ELSE IF k = "value" THEN vals["gid"]
        ELSE IF k = "size" THEN << width.val, height.val >>
        ELSE vals[k]]

\* the 'object' branch after width and height are popped: int(width),
\* int(height) when either is there (int(None) is a TypeError)
read_object_size(subelem, tilesets, p, width, height) ==
    IF DOMAIN p.vals \cap {"width", "height"} # {} /\ ~width.ok THEN Result(width, subelem)
    ELSE IF DOMAIN p.vals \cap {"width", "height"} # {} /\ ~height.ok THEN Result(height, subelem)
    ELSE IF DOMAIN p.attrib # {} THEN Result(Raise("AssertionError"), subelem)
    ELSE Result(Ok(MapObject(object_kwargs(p.vals, width, height), tilesets)), subelem)

\* the 'object' branch once its attributes are popped (p)
read_object_popped(subelem, tilesets, p) ==
    IF p.err # "" THEN Result(Raise(p.err), [subelem EXCEPT !.attrib = p.attrib])
    ELSE read_object_size([subelem EXCEPT !.attrib = p.attrib], tilesets, p,
            IF "width" \in DOMAIN p.vals THEN PyInt(p.vals["width"]) ELSE Raise("TypeError"),
            IF "height" \in DOMAIN p.vals THEN PyInt(p.vals["height"]) ELSE Raise("TypeError"))

\* the 'object' branch of object_layer_from_element
read_object(subelem, tilesets) ==
    read_object_popped(subelem, tilesets,
        PopAttrs(subelem.attrib,
                 << Attr("x", TRUE, "int"), Attr("y", TRUE, "int"), Attr("gid", FALSE, "int"),
                    Attr("name", FALSE, "str"), Attr("type", FALSE, "str"),
                    Attr("width", FALSE, "str"), Attr("height", FALSE, "str") >>, EmptyDict))

\* the loop of object_layer_from_element over the children from the i-th on;
\* a child that is neither properties nor object is passed over
RECURSIVE object_layer_loop(_, _, _, _)
RECURSIVE object_layer_properties(_, _, _, _, _)
RECURSIVE object_layer_object(_, _, _, _, _)
object_layer_loop(kids, i, layer, tilesets) ==
    IF i > Len(kids) THEN [out |-> Ok(layer), kids |-> kids]
    ELSE IF kids[i].tag = "properties" THEN
        object_layer_properties(kids, i, layer, tilesets, read_properties(kids[i]))
    ELSE IF kids[i].tag = "object" THEN
        object_layer_object(kids, i, layer, tilesets, read_object(kids[i], tilesets))
    ELSE object_layer_loop(kids, i + 1, layer, tilesets)

\* layer.properties.update(...), r being what read_properties gave
object_layer_properties(kids, i, layer, tilesets, r) ==
    IF ~r.out.ok THEN [out |-> r.out, kids |-> [kids EXCEPT ![i] = r.elem]]
    ELSE object_layer_loop([kids EXCEPT ![i] = r.elem], i + 1,
                           [layer EXCEPT !.properties = DictUpdate(@, r.out.val)], tilesets)

\* layer.append(tmxlib.MapObject(**kwargs)), r being what the branch gave
object_layer_object(kids, i, layer, tilesets, r) ==
    IF ~r.out.ok THEN [out |-> r.out, kids |-> [kids EXCEPT ![i] = r.elem]]
    ELSE object_layer_loop([kids EXCEPT ![i] = r.elem], i + 1,
                           [layer EXCEPT !.objects = Append(@, r.out.val)], tilesets)

\* ObjectLayer(map, name, opacity, visible): no objects yet
NewObjectLayer(vals, map) ==
    [type |-> "objects", name |-> vals["name"], map |-> map.size,
     opacity |-> DictGet(vals, "opacity", 10),
     visible |-> DictGet(vals, "visible", 1) # 0,
     properties |-> EmptyDict, objects |-> <<>>]

object_layer_popped(elem, map, p) ==
    IF LayerAttrsError(p, map) # "" THEN
        Result(Raise(LayerAttrsError(p, map)), [elem EXCEPT !.attrib = p.attrib])
    ELSE Looped([elem EXCEPT !.attrib = p.attrib],
                object_layer_loop(elem.children, 1, NewObjectLayer(p.vals, map), map.tilesets))

object_layer_from_element(elem, map) ==
    object_layer_popped(elem, map, PopAttrs(elem.attrib, LayerAttrs, EmptyDict))

\* the size test of object_layer_to_element without the comparison with the
\* tile's size
writes_size_unless_zero(object) == object.size # << 0, 0 >>

\* the condition under which object_layer_to_element writes width and height
writes_size(object) ==
    /\ object.size # << 0, 0 >>
    /\ ~(object.tileset_tile # <<>> /\ object.tileset_tile[1].size = object.size)

object_element(object) ==
    LET a0 == [x |-> PyStr(object.pos[1]), y |-> PyStr(object.pos[2])]
        a1 == IF object.value # 0 THEN DictSet(a0, "gid", PyStr(object.value)) ELSE a0
        a2 == IF Truthy(object.name) THEN DictSet(a1, "name", object.name) ELSE a1
        a3 == IF Truthy(object.type) THEN DictSet(a2, "type", object.type) ELSE a2
        a4 == IF writes_size(object)
              THEN DictSet(DictSet(a3, "width", PyStr(object.size[1])),
                           "height", PyStr(object.size[2]))
              ELSE a3
    IN  Element("object", a4)

object_layer_to_element(layer) ==
    LET element == layer_element("objectgroup", layer)
    IN  [element EXCEPT !.children =
            @ \o [i \in 1..Len(layer.objects) |-> object_element(layer.objects[i])]]

layer_to_element(layer) ==
    IF layer.type = "objects" THEN [out |-> Ok(object_layer_to_element(layer)), steps |-> <<>>]
    ELSE IF layer.type = "tiles" THEN tile_layer_to_element(layer)
    ELSE [out |-> Raise("ValueError"), steps |-> <<>>]

(***************************************************************************)
(* Document codec                                                          *)
(***************************************************************************)
\* A map: [size, tile_size, orientation, base_path, properties, tilesets, layers].

\* the assertion of read_map on a tileset it has appended, without the
\* comparison
first_gid_unchecked(tilesets, tileset) == TRUE

\* assert tileset.first_gid(map) == tileset._read_first_gid, for the tileset
\* just appended to tilesets
first_gid_matches(tilesets, tileset) ==
    first_gid(tilesets, Len(tilesets)) = tileset.read_first_gid[1]

\* the loop of read_map over the children from the i-th on
RECURSIVE read_map_loop(_, _, _, _)
RECURSIVE read_map_properties(_, _, _, _, _)
RECURSIVE read_map_tileset(_, _, _, _, _)
RECURSIVE read_map_layer(_, _, _, _, _)
read_map_loop(kids, i, map, base_path) ==
    IF i > Len(kids) THEN [out |-> Ok(map), kids |-> kids]
    ELSE IF kids[i].tag = "properties" THEN
        read_map_properties(kids, i, map, base_path, read_properties(kids[i]))
    ELSE IF kids[i].tag = "tileset" THEN
        read_map_tileset(kids, i, map, base_path, read_tileset(kids[i], base_path))
    ELSE IF kids[i].tag = "layer" THEN
        read_map_layer(kids, i, map, base_path, tile_layer_from_element(kids[i], map))
    ELSE IF kids[i].tag = "objectgroup" THEN
        read_map_layer(kids, i, map, base_path, object_layer_from_element(kids[i], map))
    ELSE [out |-> Raise("AssertionError"), kids |-> kids]

\* map.properties.update(...), r being what read_properties gave
read_map_properties(kids, i, map, base_path, r) ==
    IF ~r.out.ok THEN [out |-> r.out, kids |-> [kids EXCEPT ![i] = r.elem]]
    ELSE read_map_loop([kids EXCEPT ![i] = r.elem], i + 1,
                       [map EXCEPT !.properties = DictUpdate(@, r.out.val)], base_path)

\* map.tilesets.append(tileset) and the assertion on its first gid, r being
\* what Tileset.from_element gave
read_map_tileset(kids, i, map, base_path, r) ==
    IF ~r.out.ok THEN [out |-> r.out, kids |-> [kids EXCEPT ![i] = r.elem]]
    ELSE IF ~first_gid_matches(Append(map.tilesets, r.out.val), r.out.val) THEN
        [out |-> Raise("AssertionError"), kids |-> [kids EXCEPT ![i] = r.elem]]
    ELSE read_map_loop([kids EXCEPT ![i] = r.elem], i + 1,
                       [map EXCEPT !.tilesets = Append(@, r.out.val)], base_path)

\* map.layers.append(...), r being what the layer reader gave
read_map_layer(kids, i, map, base_path, r) ==
    IF ~r.out.ok THEN [out |-> r.out, kids |-> [kids EXCEPT ![i] = r.elem]]
    ELSE read_map_loop([kids EXCEPT ![i] = r.elem], i + 1,
                       [map EXCEPT !.layers = Append(@, r.out.val)], base_path)

\* read_map once width, height, tilewidth, tileheight and orientation are
\* popped (p)
read_map_popped(root, base_path, p) ==
    IF p.err # "" THEN Result(Raise(p.err), [root EXCEPT !.attrib = p.attrib])
    ELSE IF DOMAIN p.attrib # {} THEN
        Result(Raise("AssertionError"), [root EXCEPT !.attrib = p.attrib])
    ELSE Looped([root EXCEPT !.attrib = p.attrib],
                read_map_loop(root.children, 1,
                    [size |-> << p.vals["width"], p.vals["height"] >>,
                     tile_size |-> << p.vals["tilewidth"], p.vals["tileheight"] >>,
                     orientation |-> p.vals["orientation"], base_path |-> base_path,
                     properties |-> EmptyDict, tilesets |-> <<>>, layers |-> <<>>],
                    base_path))

\* read_map once the version attribute is popped (v)
read_map_version(root, base_path, v) ==
    IF v.err # "" THEN Result(Raise(v.err), [root EXCEPT !.attrib = v.attrib])
    ELSE IF v.vals["version"] # "1.0" THEN
        Result(Raise("AssertionError"), [root EXCEPT !.attrib = v.attrib])
    ELSE read_map_popped([root EXCEPT !.attrib = v.attrib], base_path,
            PopAttrs(v.attrib,
                     << Attr("width", TRUE, "int"), Attr("height", TRUE, "int"),
                        Attr("tilewidth", TRUE, "int"), Attr("tileheight", TRUE, "int"),
                        Attr("orientation", TRUE, "str") >>, EmptyDict))

read_map(root, base_path) ==
    IF root.tag # "map" THEN Result(Raise("AssertionError"), root)
    ELSE read_map_version(root, base_path,
            PopAttrs(root.attrib, << Attr("version", TRUE, "str") >>, EmptyDict))

\* the second loop of write_map: the elements of the layers from the i-th
\* on, or the first exception
RECURSIVE layer_elements(_, _)
RECURSIVE layer_elements_after(_, _, _)
layer_elements(layers, i) ==
    IF i > Len(layers) THEN Ok(<<>>)
    ELSE layer_elements_after(layers, i, layer_to_element(layers[i]).out)

\* w in front of the elements of the layers after it
layer_elements_rest(w, rest) == IF ~rest.ok THEN rest ELSE Ok(<< w.val >> \o rest.val)

\* elem.append(w) and the rest of the loop
layer_elements_after(layers, i, w) ==
    IF ~w.ok THEN w ELSE layer_elements_rest(w, layer_elements(layers, i + 1))

\* the end of write_map: the children appended, layers being the elements
\* of the second loop
write_map_children(map, base_path, elem, layers) ==
    IF ~layers.ok THEN layers
    ELSE Ok([elem EXCEPT !.children =
                @ \o [i \in 1..Len(map.tilesets) |->
                        write_tileset(map.tilesets[i], base_path, first_gid(map.tilesets, i))]
                  \o layers.val])

write_map(map, base_path) ==
    write_map_children(map, base_path,
        append_properties(Element("map", [version |-> "1.0", orientation |-> map.orientation,
                                          width |-> PyStr(map.size[1]),
                                          height |-> PyStr(map.size[2]),
                                          tilewidth |-> PyStr(map.tile_size[1]),
                                          tileheight |-> PyStr(map.tile_size[2])]),
                          map.properties),
        layer_elements(map.layers, 1))

(***************************************************************************)
(* Runs of the tile-layer codec                                            *)
(***************************************************************************)
MaxCells == 2

\* 0, 0x01020304, 2^31 and 2^32 - 1
TileIds == { <<0, 0>>, <<772, 258>>, <<0, 32768>>, <<65535, 65535>> }

MapSizes == { s \in (1..MaxCells) \X (1..MaxCells) : s[1] * s[2] <= MaxCells }

Compressions == { Unset, None, "zlib", "gzip", "lzma" }
Encodings == { Unset, None, "base64", "csv" }

LayerLooks ==
    { [visible |-> TRUE, opacity |-> 10, properties |-> EmptyDict, mtime |-> <<>>],
      [visible |-> FALSE, opacity |-> 5, properties |-> [a |-> "1"], mtime |-> << 3 >>] }

TileLayersOf(size, compressions, encodings) ==
    { [type |-> "tiles", name |-> "L", map |-> size, visible |-> k.visible,
       opacity |-> k.opacity, properties |-> k.properties, mtime |-> k.mtime,
       data |-> d, compression |-> c, encoding |-> e] :
         k \in LayerLooks, d \in [1..(size[1] * size[2]) -> TileIds],
         c \in compressions, e \in encodings }

TileLayers == UNION { TileLayersOf(size, Compressions, Encodings) : size \in MapSizes }

InitTile ==
    /\ longBytes \in LongSizes
    /\ pc = "layer"
    /\ model \in TileLayers
    /\ node = None
    /\ out = NoOut
    /\ steps = <<>>
    /\ before = NoRead

TileLayerToElement ==
    /\ pc = "layer"
    /\ \E w \in { tile_layer_to_element(model) } :
        /\ out' = w.out
        /\ steps' = w.steps
        /\ node' = IF w.out.ok THEN w.out.val ELSE None
    /\ pc' = "written"
    /\ UNCHANGED <<longBytes, model, before>>

\* the compression of packed bytes that the data node's attribute names
Compressed(bytes, compression) ==
    IF compression = "gzip" THEN gzip_write(bytes, CurrentTime)
    ELSE IF compression = "zlib" THEN zlib_compress(bytes)
    ELSE bytes

\* byte lengths a data node must not have for a map of the given number of
\* cells: a tile short, a byte short, a byte long, a tile long
ForeignLengths(cells) == { 4 * cells - 4, 4 * cells - 1, 4 * cells + 1, 4 * cells + 4 }

\* A layer element as another program may have written it: the data node
\* holds n bytes, whatever the size of the map
ForeignData ==
    /\ pc = "written"
    /\ out.ok
    /\ \E n \in ForeignLengths(Len(model.data)) :
        LET bytes == SubSeq(pack_uint32_le(model.data \o << <<772, 258>> >>), 1, n)
            i == Len(node.children)
            c == DictGet(node.children[i].attrib, "compression", None)
        IN  node' = [node EXCEPT !.children[i].text = b64encode(Compressed(bytes, c))]
    /\ pc' = "foreign"
    /\ UNCHANGED <<longBytes, model, out, steps, before>>

TileLayerFromElement ==
    /\ \/ pc = "written" /\ out.ok
       \/ pc = "foreign"
    /\ \E r \in { tile_layer_from_element(node, [size |-> model.map]) } :
        /\ out' = r.out
        /\ node' = r.elem
    /\ pc' = IF pc = "written" THEN "read" ELSE "read_foreign"
    /\ before' = [input |-> node, out |-> out]
    /\ UNCHANGED <<longBytes, model, steps>>

NextTile == TileLayerToElement \/ ForeignData \/ TileLayerFromElement

SpecTile == InitTile /\ [][NextTile]_vars

\* C1: a tile layer with ids in 0..2^32-1, compression none, zlib or gzip and
\* encoding base64 is read back from its own element with the same data, the
\* same compression and the same encoding.
C1_TileLayerRoundTrip ==
    (pc = "read" /\ model.compression \in {None, "zlib", "gzip"} /\ model.encoding = "base64")
        => /\ out.ok
           /\ out.val.data = model.data
           /\ out.val.compression = model.compression
           /\ out.val.encoding = model.encoding

\* C2: every tile layer a read returns has width * height ids: a data node
\* whose byte length is not 4 * width * height is refused.
C2_TileCount ==
    (pc \in {"read", "read_foreign"} /\ out.ok)
        => Len(out.val.data) = model.map[1] * model.map[2]

\* the settings tile_layer_to_element works with: getattr's defaults applied
EffectiveCompression == getattr(model.compression, "zlib")
EffectiveEncoding == getattr(model.encoding, "base64")
BadCompression == Truthy(EffectiveCompression) /\ EffectiveCompression \notin {"zlib", "gzip"}
CompressionSteps ==
    IF EffectiveCompression \in {"zlib", "gzip"} THEN << "pack", EffectiveCompression >>
    ELSE << "pack" >>

\* C5: a layer whose compression is not none, zlib or gzip, or whose
\* encoding is unset or not base64, is refused before compression or
\* transport encoding has been applied to the packed data.
C5_ValidationBeforeTransforms ==
    (pc = "written" /\ (\/ model.compression \notin {None, "zlib", "gzip"}
                        \/ model.encoding # "base64"))
        => ~out.ok /\ steps = << "pack" >>

\* C5, as the code has it: a compression that is set and is not none, zlib or gzip is
\* refused with nothing but the packing done; an encoding that is set and is
\* not base64 is refused only after the layer's compression step has been
\* applied, never after the transport encoding; an unset compression or
\* encoding stands for zlib or base64 and is not refused.
C5_ValidationOrder ==
    pc = "written" =>
        /\ BadCompression =>
              ~out.ok /\ out.err = "ValueError: Bad compression" /\ steps = << "pack" >>
        /\ (~BadCompression /\ EffectiveEncoding # "base64") =>
              ~out.ok /\ out.err = "ValueError: Bad encoding" /\ steps = CompressionSteps
        /\ (~BadCompression /\ EffectiveEncoding = "base64") =>
              out.ok /\ steps = Append(CompressionSteps, "base64")

\* a layer with zlib compression and encoding csv was refused after the
\* compression step
C5_Witness ==
    /\ pc = "written"
    /\ model.compression = "zlib"
    /\ model.encoding = "csv"
    /\ ~out.ok
    /\ steps = << "pack", "zlib" >>

(***************************************************************************)
(* Runs of the object-layer codec                                          *)
(***************************************************************************)
MaxObjects == 2

EmbeddedTileset(name, tile_size, image_size, trans, spacing, tile_properties) ==
    [name |-> name, tile_size |-> tile_size, margin |-> 0, spacing |-> spacing,
     image |-> << [source |-> name \o ".png", trans |-> trans, size |-> image_size] >>,
     tile_properties |-> tile_properties, source |-> None, read_first_gid |-> <<>>]

\* two tiles of 8 x 8 (gids 1 and 2), then one tile of 16 x 16 (gid 3)
ObjectTilesets ==
    << EmbeddedTileset("a", <<8, 8>>, <<16, 8>>, <<>>, 0, EmptyDict),
       EmbeddedTileset("b", <<16, 16>>, <<16, 16>>, <<>>, 0, EmptyDict) >>

ObjectKwargs ==
    { [pos |-> <<1, -2>>, value |-> v] : v \in {0, 1, 3} }
    \cup { [pos |-> <<1, -2>>, value |-> v, size |-> z] :
                v \in {0, 1, 3}, z \in { <<0, 0>>, <<8, 8>>, <<16, 16>>, <<8, 16>> } }
    \cup { [pos |-> <<0, 3>>, value |-> 1, name |-> "n", type |-> "t"] }

MapObjects(tilesets) == { MapObject(k, tilesets) : k \in ObjectKwargs }

SeqsUpTo(S, n) == UNION { [1..k -> S] : k \in 0..n }

ObjectLayers ==
    { [type |-> "objects", name |-> "O", map |-> <<2, 1>>, visible |-> k.visible,
       opacity |-> k.opacity, properties |-> k.properties, objects |-> os] :
         k \in LayerLooks, os \in SeqsUpTo(MapObjects(ObjectTilesets), MaxObjects) }

InitObject ==
    /\ longBytes \in LongSizes
    /\ pc = "layer"
    /\ model \in ObjectLayers
    /\ node = None
    /\ out = NoOut
    /\ steps = <<>>
    /\ before = NoRead

ObjectLayerToElement ==
    /\ pc = "layer"
    /\ node' = object_layer_to_element(model)
    /\ out' = Ok(node')
    /\ pc' = "written"
    /\ UNCHANGED <<longBytes, model, steps, before>>

ObjectLayerFromElement ==
    /\ pc = "written"
    /\ \E r \in { object_layer_from_element(node, [size |-> model.map,
                                                     tilesets |-> ObjectTilesets]) } :
        /\ out' = r.out
        /\ node' = r.elem
    /\ before' = [input |-> node, out |-> out]
    /\ pc' = "read"
    /\ UNCHANGED <<longBytes, model, steps>>

NextObject == ObjectLayerToElement \/ ObjectLayerFromElement

SpecObject == InitObject /\ [][NextObject]_vars

\* the element written for the i-th object of the layer
ObjectNode(i) == node.children[(IF DOMAIN model.properties = {} THEN 0 ELSE 1) + i]

RefersToTile(object) == object.tileset_tile # <<>>

\* C9: object_layer_to_element writes width and height (both or neither)
\* exactly for the objects whose size is not (0, 0) and which either refer to
\* no tile or have a size other than their tile's.
C9_ObjectSizeDedup ==
    pc = "written" =>
        \A i \in 1..Len(model.objects) :
            LET object == model.objects[i]
                attrib == ObjectNode(i).attrib
                wanted == /\ object.size # << 0, 0 >>
                          /\ \/ ~RefersToTile(object)
                             \/ object.tileset_tile[1].size # object.size
            IN  /\ ("width" \in DOMAIN attrib) <=> wanted
                /\ ("height" \in DOMAIN attrib) <=> wanted
                /\ wanted => /\ attrib["width"] = PyStr(object.size[1])
                             /\ attrib["height"] = PyStr(object.size[2])

\* a layer was written with an object of its tile's size (no width, height)
\* followed by one of another size than its tile (width and height written)
C9_Witness ==
    /\ pc = "written"
    /\ Len(model.objects) = 2
    /\ RefersToTile(model.objects[1])
    /\ model.objects[1].size = model.objects[1].tileset_tile[1].size
    /\ "width" \notin DOMAIN ObjectNode(1).attrib
    /\ RefersToTile(model.objects[2])
    /\ model.objects[2].size = << 8, 16 >>
    /\ "width" \in DOMAIN ObjectNode(2).attrib

(***************************************************************************)
(* Runs of the document codec                                              *)
(***************************************************************************)
MaxTilesets == 2
MaxLayers == 2

BasePath == "/maps"

\* an embedded tileset of 2 tiles with per-tile properties, one of 1 tile
\* whose transparent colour has a byte below 16, and a reference to the
\* tileset file (1 tile)
TilesetPool ==
    { EmbeddedTileset("a", <<8, 8>>, <<16, 8>>, << <<255, 0, 16>> >>, 0, (1 :> [a |-> "1"])),
      EmbeddedTileset("b", <<8, 8>>, <<8, 8>>, << <<0, 5, 0>> >>, 1, EmptyDict),
      [open_tileset(os_path_join(BasePath, "ext.tsx")).val EXCEPT
            !.source = "ext.tsx", !.read_first_gid = <<>>] }

\* the layers of a map of 2 x 1 cells with the given tilesets: a tile layer,
\* a tile layer holding a flipped tile (bit 31 of the id set), an object layer
LayerPool(tilesets) ==
    { [type |-> "tiles", name |-> "ground", map |-> <<2, 1>>, visible |-> TRUE, opacity |-> 10,
       properties |-> EmptyDict, mtime |-> <<>>, data |-> << <<1, 0>>, <<0, 0>> >>,
       compression |-> "zlib", encoding |-> "base64"],
      [type |-> "tiles", name |-> "flipped", map |-> <<2, 1>>, visible |-> FALSE, opacity |-> 5,
       properties |-> [a |-> "1"], mtime |-> <<>>, data |-> << <<1, 32768>>, <<1, 0>> >>,
       compression |-> "gzip", encoding |-> "base64"],
      [type |-> "objects", name |-> "things", map |-> <<2, 1>>, visible |-> TRUE, opacity |-> 10,
       properties |-> EmptyDict,
       objects |-> << MapObject([pos |-> <<0, 3>>, value |-> 1, name |-> "n"], tilesets),
                      MapObject([pos |-> <<1, -2>>, size |-> <<3, 4>>], tilesets) >>] }

MapsWith(tilesets, maxLayers, propertySets) ==
    { [size |-> <<2, 1>>, tile_size |-> <<8, 8>>, orientation |-> "orthogonal",
       base_path |-> BasePath, properties |-> p, tilesets |-> tilesets, layers |-> ls] :
         p \in propertySets, ls \in SeqsUpTo(LayerPool(tilesets), maxLayers) }

Maps ==
    UNION { MapsWith(ts, MaxLayers, {EmptyDict, [b |-> "2"]}) :
                ts \in SeqsUpTo(TilesetPool, MaxTilesets) }

InitMap ==
    /\ longBytes \in LongSizes
    /\ pc = "map"
    /\ model \in Maps
    /\ node = None
    /\ out = NoOut
    /\ steps = <<>>
    /\ before = NoRead

WriteMap ==
    /\ pc = "map"
    /\ out' = write_map(model, BasePath)
    /\ node' = IF out'.ok THEN out'.val ELSE None
    /\ pc' = "written"
    /\ UNCHANGED <<longBytes, model, steps, before>>

\* the paths to the nodes of a tree: the child indices from the root
RECURSIVE Paths(_)
Paths(e) ==
    { <<>> } \cup UNION { { << i >> \o p : p \in Paths(e.children[i]) } : i \in 1..Len(e.children) }

RECURSIVE NodeAt(_, _)
NodeAt(e, path) == IF path = <<>> THEN e ELSE NodeAt(e.children[path[1]], Tail(path))

RECURSIVE AddAttributeAt(_, _, _, _)
AddAttributeAt(e, path, k, v) ==
    IF path = <<>> THEN [e EXCEPT !.attrib = DictSet(@, k, v)]
    ELSE [e EXCEPT !.children[path[1]] = AddAttributeAt(@, Tail(path), k, v)]

RECURSIVE DelAttributeAt(_, _, _)
DelAttributeAt(e, path, k) ==
    IF path = <<>> THEN [e EXCEPT !.attrib = DictDel(@, k)]
    ELSE [e EXCEPT !.children[path[1]] = DelAttributeAt(@, Tail(path), k)]

RECURSIVE AddChildAt(_, _, _)
AddChildAt(e, path, c) ==
    IF path = <<>> THEN AppendChild(e, c)
    ELSE [e EXCEPT !.children[path[1]] = AddChildAt(@, Tail(path), c)]

\* the level of the schema a node stands for: its tag; a tileset node with a
\* source attribute is a reference to a tileset file
NodeKind(e) ==
    IF e.tag = "tileset" /\ "source" \in DOMAIN e.attrib THEN "tileset reference" ELSE e.tag

\* A map file that differs from a written one by an attribute the schema does
\* not know, on any one node
AddAttribute ==
    /\ pc = "written"
    /\ out.ok
    /\ \E path \in Paths(node) :
        /\ node' = AddAttributeAt(node, path, "bogus", "1")
        /\ steps' = << "add_attribute", NodeKind(NodeAt(node, path)) >>
    /\ pc' = "edited"
    /\ UNCHANGED <<longBytes, model, out, before>>

\* A map file that differs from a written one by a child of an unknown tag,
\* the last child of any one node
AddChild ==
    /\ pc = "written"
    /\ out.ok
    /\ \E path \in Paths(node) :
        /\ node' = AddChildAt(node, path, Element("bogus", EmptyDict))
        /\ steps' = << "add_child", NodeKind(NodeAt(node, path)) >>
    /\ pc' = "edited"
    /\ UNCHANGED <<longBytes, model, out, before>>

FirstGidTexts == { "0", "1", "2", " 3", "4", "01", "x" }

\* A map file that differs from a written one by the firstgid of a tileset
\* node: another text, or none
SetFirstGid ==
    /\ pc = "written"
    /\ out.ok
    /\ \E i \in 1..Len(node.children) :
        /\ node.children[i].tag = "tileset"
        /\ \/ \E t \in FirstGidTexts : node' = AddAttributeAt(node, << i >>, "firstgid", t)
           \/ node' = DelAttributeAt(node, << i >>, "firstgid")
    /\ steps' = << "set_firstgid" >>
    /\ pc' = "edited"
    /\ UNCHANGED <<longBytes, model, out, before>>

\* read_map on the tree at hand; a second time on the tree the first call left
ReadMap ==
    /\ \/ pc = "written" /\ out.ok
       \/ pc \in {"edited", "read"}
    /\ \E r \in { read_map(node, BasePath) } :
        /\ out' = r.out
        /\ node' = r.elem
    /\ before' = [input |-> node, out |-> out]
    /\ pc' = IF pc = "read" THEN "reread" ELSE "read"
    /\ UNCHANGED <<longBytes, model, steps>>

NextMap == WriteMap \/ AddAttribute \/ AddChild \/ SetFirstGid \/ ReadMap

SpecMap == InitMap /\ [][NextMap]_vars

\* C4: a read leaves the tree it is given as it was, and a second read of the
\* same tree ends as the first did: with the same map, or the same exception.
C4_ReadPurity ==
    /\ pc \in {"read", "reread"} => node = before.input
    /\ pc = "reread" =>
          /\ out.ok = before.out.ok
          /\ out.ok => out.val = before.out.val
          /\ ~out.ok => out.err = before.out.err

\* the levels whose children a reader goes through
ParentKinds == { "map", "tileset", "tile", "layer", "objectgroup", "properties" }

\* C7: a file in which a node of any of these levels has a child of an unknown
\* tag is refused.
C7_UnknownChildRejected ==
    (pc = "read" /\ Len(steps) = 2 /\ steps[1] = "add_child" /\ steps[2] \in ParentKinds)
        => ~out.ok

\* the kinds of node the schema describes
SchemaKinds ==
    { "map", "tileset", "tileset reference", "tile", "image", "layer", "data", "objectgroup",
      "object", "properties", "property" }

\* C8: a file in which a node of any kind carries an attribute the schema does
\* not know is refused.
C8_UnknownAttributeRejected ==
    (pc = "read" /\ Len(steps) = 2 /\ steps[1] = "add_attribute" /\ steps[2] \in SchemaKinds)
        => ~out.ok

\* kind and name of each layer, in order
LayerOrder(layers) == [i \in 1..Len(layers) |-> << layers[i].type, layers[i].name >>]

\* the tilesets without the first gid a read has recorded on them
AsWritten(tilesets) == [i \in 1..Len(tilesets) |-> [tilesets[i] EXCEPT !.read_first_gid = <<>>]]

\* C10: the map read back from the file written for a map has the map's
\* layers, by kind and name, and the map's tilesets, in the map's order.
C10_OrderPreserved ==
    (pc = "read" /\ steps = <<>>)
        => /\ out.ok
           /\ LayerOrder(out.val.layers) = LayerOrder(model.layers)
           /\ AsWritten(out.val.tilesets) = model.tilesets

\* the name of each tileset, in order
TilesetOrder(tilesets) == [i \in 1..Len(tilesets) |-> tilesets[i].name]

\* whenever the read of a written file returns a map, layers and tilesets are
\* in the order of the map written
OrderKeptWhenReadBack ==
    (pc = "read" /\ steps = <<>> /\ out.ok)
        => /\ LayerOrder(out.val.layers) = LayerOrder(model.layers)
           /\ TilesetOrder(out.val.tilesets) = TilesetOrder(model.tilesets)

(***************************************************************************)
(* Runs of read_map on files whose firstgid attributes vary                *)
(***************************************************************************)
InitFirstGid ==
    /\ longBytes \in LongSizes
    /\ pc = "map"
    /\ model \in UNION { MapsWith(ts, 1, {EmptyDict}) : ts \in SeqsUpTo(TilesetPool, MaxTilesets) }
    /\ node = None
    /\ out = NoOut
    /\ steps = <<>>
    /\ before = NoRead

NextFirstGid == WriteMap \/ SetFirstGid \/ ReadMap

SpecFirstGid == InitFirstGid /\ [][NextFirstGid]_vars

IsTilesetNode(e) == e.tag = "tileset"

\* the tileset children of the tree the last read was given, in order
TilesetNodes == SelectSeq(before.input.children, IsTilesetNode)

\* the name a tileset node gives its tileset; a reference names the file
NodeName(e) == IF "source" \in DOMAIN e.attrib THEN "ext" ELSE e.attrib["name"]

\* the tile counts of the first n tilesets, added up
RECURSIVE TilesBefore(_, _)
TilesBefore(tilesets, n) ==
    IF n = 0 THEN 0 ELSE TilesBefore(tilesets, n - 1) + TileCount(tilesets[n])

\* C3: a map that read_map returns has the tilesets of the tileset nodes, in
\* the order of the nodes, and the firstgid attribute of the i-th node is
\* there and is a numeral of 1 + the tile counts of the tilesets before it.
C3_FirstGidConsistency ==
    (pc = "read" /\ out.ok) =>
        /\ Len(out.val.tilesets) = Len(TilesetNodes)
        /\ \A i \in 1..Len(TilesetNodes) :
            /\ out.val.tilesets[i].name = NodeName(TilesetNodes[i])
            /\ "firstgid" \in DOMAIN TilesetNodes[i].attrib
            /\ PyInt(TilesetNodes[i].attrib["firstgid"]).ok
            /\ PyInt(TilesetNodes[i].attrib["firstgid"]).val
                    = 1 + TilesBefore(out.val.tilesets, i - 1)

\* a file whose second tileset node had its firstgid rewritten was read: the
\* first tileset has 2 tiles and the second starts at 3
C3_Witness ==
    /\ pc = "read"
    /\ out.ok
    /\ steps = << "set_firstgid" >>
    /\ Len(out.val.tilesets) = 2
    /\ TileCount(out.val.tilesets[1]) = 2
    /\ TilesetNodes[2].attrib["firstgid"] = " 3"
    /\ out.val.tilesets[2].read_first_gid = << 3 >>

\* a file whose second tileset node says firstgid 2 where 3 is due was refused
FirstGidRefused ==
    /\ pc = "read"
    /\ steps = << "set_firstgid" >>
    /\ Len(model.tilesets) = 2
    /\ TileCount(model.tilesets[1]) = 2
    /\ TilesetNodes[2].attrib["firstgid"] = "2"
    /\ ~out.ok
    /\ out.err = "AssertionError"

====
